---------------------------- MODULE Spec2Model ----------------------------
(***************************************************************************)
(* Model of the RS-code-simulator runtime (src/src/runtime/simulator.ts): *)
(* the error translator extractErrors, the orchestrator                    *)
(* RobloxSimulator.run with its load-then-call stages and logging hooks.   *)
(*                                                                         *)
(* Text is modelled as a sequence of one-character strings, so that the    *)
(* translator's pattern, trimming and line splitting are computed rather   *)
(* than assumed.                                                           *)
(***************************************************************************)
EXTENDS Integers, Sequences, FiniteSets, TLC

(***************************************************************************)
(* Bounds of the model.                                                    *)
(***************************************************************************)
\* longest raw text enumerated character by character for the translator
MaxLen == 4

(***************************************************************************)
(* Text helpers (JavaScript string operations used by the source).         *)
(***************************************************************************)
\* characters String.prototype.trim and the pattern's \s treat as white space
IsSpace(c) == c \in {" ", "\t", "\n", "\r", "\f"}

\* the pattern's \d
IsDigit(c) == c \in {"0", "1", "2", "3", "4", "5", "6", "7", "8", "9"}

DigitValue(c) ==
  CASE c = "0" -> 0 [] c = "1" -> 1 [] c = "2" -> 2 [] c = "3" -> 3
    [] c = "4" -> 4 [] c = "5" -> 5 [] c = "6" -> 6 [] c = "7" -> 7
    [] c = "8" -> 8 [] c = "9" -> 9

DigitChar(d) ==
  CASE d = 0 -> "0" [] d = 1 -> "1" [] d = 2 -> "2" [] d = 3 -> "3"
    [] d = 4 -> "4" [] d = 5 -> "5" [] d = 6 -> "6" [] d = 7 -> "7"
    [] d = 8 -> "8" [] d = 9 -> "9"

\* s.slice(i - 1): the text from the i-th character (1-based) to the end
From(s, i) == IF i > Len(s) THEN <<>> ELSE SubSeq(s, i, Len(s))

RECURSIVE TrimStart(_)
TrimStart(s) ==
  IF s = <<>> THEN <<>>
  ELSE IF IsSpace(Head(s)) THEN TrimStart(Tail(s)) ELSE s

RECURSIVE TrimEnd(_)
TrimEnd(s) ==
  IF s = <<>> THEN <<>>
  ELSE IF IsSpace(s[Len(s)]) THEN TrimEnd(SubSeq(s, 1, Len(s) - 1)) ELSE s

\* String.prototype.trim
Trim(s) == TrimEnd(TrimStart(s))

\* position of the first line break /\r?\n/ in s: <<start, end>> of the
\* separator, or <<0, 0>> when s holds none
RECURSIVE BreakAt(_, _)
BreakAt(s, i) ==
  IF i > Len(s) THEN <<0, 0>>
  ELSE IF s[i] = "\n" THEN <<i, i>>
  ELSE IF s[i] = "\r" /\ i < Len(s) /\ s[i + 1] = "\n" THEN <<i, i + 1>>
  ELSE BreakAt(s, i + 1)

\* s.split(/\r?\n/): the lines of s, at least one
RECURSIVE SplitLines(_)
SplitLines(s) ==
  LET b == BreakAt(s, 1)
  IN  IF b[1] = 0 THEN <<s>>
      ELSE <<SubSeq(s, 1, b[1] - 1)>> \o SplitLines(From(s, b[2] + 1))

\* lines.join('\n')
RECURSIVE JoinLines(_)
JoinLines(ls) ==
  IF ls = <<>> THEN <<>>
  ELSE IF Len(ls) = 1 THEN ls[1]
  ELSE ls[1] \o <<"\n">> \o JoinLines(Tail(ls))

\* index of the first occurrence of character c in s at or after i, 0 if none
RECURSIVE IndexOf(_, _, _)
IndexOf(s, c, i) ==
  IF i > Len(s) THEN 0
  ELSE IF s[i] = c THEN i ELSE IndexOf(s, c, i + 1)

\* length of the run of digits of s that starts at position i
RECURSIVE DigitRun(_, _)
DigitRun(s, i) ==
  IF i > Len(s) \/ ~IsDigit(s[i]) THEN 0 ELSE 1 + DigitRun(s, i + 1)

\* Number.parseInt(digits, 10) of a non-empty run of decimal digits
RECURSIVE ParseInt(_)
ParseInt(ds) ==
  IF ds = <<>> THEN 0
  ELSE 10 * ParseInt(SubSeq(ds, 1, Len(ds) - 1)) + DigitValue(ds[Len(ds)])

\* decimal text of a natural number
RECURSIVE Digits(_)
Digits(n) ==
  IF n < 10 THEN <<DigitChar(n)>> ELSE Digits(n \div 10) \o <<DigitChar(n % 10)>>

StartsWith(s, p) == Len(s) >= Len(p) /\ SubSeq(s, 1, Len(p)) = p

\* whether text p occurs in s (String.prototype.includes)
Includes(s, p) ==
  \E i \in 1..(Len(s) - Len(p) + 1) : SubSeq(s, i, i + Len(p) - 1) = p

(***************************************************************************)
(* extractErrors (the Error Translator).                                   *)
(***************************************************************************)
UnknownErrorText ==
  <<"U", "n", "k", "n", "o", "w", "n", " ", "e", "r", "r", "o", "r", " ",
    "r", "a", "i", "s", "e", "d", " ", "b", "y", " ", "R", "o", "b", "l",
    "o", "x", " ", "s", "i", "m", "u", "l", "a", "t", "o", "r", " ", "r",
    "u", "n", "t", "i", "m", "e", ".">>

RuntimeErrorText ==
  <<"R", "u", "n", "t", "i", "m", "e", " ", "e", "r", "r", "o", "r">>

\* the literal opening of the quoted-identity shape: [string "
StringShapeOpen == <<"[", "s", "t", "r", "i", "n", "g", " ", "\"">>

NoMatch == [ok |-> FALSE, ident |-> <<>>, line |-> <<>>, message |-> <<>>]

\* the part of the pattern after the identity, tried at position i of h:
\*   :(?<line>\d+):\s*(?<message>[\s\S]*)$
PatternTail(h, i, ident) ==
  LET d == DigitRun(h, i + 1)
  IN  IF /\ i <= Len(h)
         /\ h[i] = ":"
         /\ d >= 1
         /\ i + 1 + d <= Len(h)
         /\ h[i + 1 + d] = ":"
      THEN [ok |-> TRUE, ident |-> ident,
            line |-> SubSeq(h, i + 1, i + d),
            message |-> TrimStart(From(h, i + 2 + d))]
      ELSE NoMatch

\* first alternative: \[string "(?<chunk>[^"]+)"\]
PatternQuoted(h) ==
  LET q == IndexOf(h, "\"", Len(StringShapeOpen) + 1)
  IN  IF /\ StartsWith(h, StringShapeOpen)
         /\ q > Len(StringShapeOpen) + 1
         /\ q + 1 <= Len(h)
         /\ h[q + 1] = "]"
      THEN PatternTail(h, q + 2, SubSeq(h, Len(StringShapeOpen) + 1, q - 1))
      ELSE NoMatch

\* second alternative: (?<direct>[^:]+)
PatternDirect(h) ==
  LET c == IndexOf(h, ":", 1)
  IN  IF c > 1 THEN PatternTail(h, c, SubSeq(h, 1, c - 1)) ELSE NoMatch

\* a pattern that knows the quoted-identity shape only
PatternExec_quotedOnly(h) == PatternQuoted(h)

\* pattern.exec(headline): the alternatives in the order the pattern lists them
PatternExec(h) ==
  IF PatternQuoted(h).ok THEN PatternQuoted(h) ELSE PatternDirect(h)

\* .replace(/^@/, '')
StripSigil(s) == IF s # <<>> /\ Head(s) = "@" THEN Tail(s) ELSE s

\* A Diagnostic (SimulationError). An optional field is a sequence of at most
\* one value; stack is the empty text when it is undefined.
Diagnostic(message, chunkName, line, stack) ==
  [message |-> message, chunkName |-> chunkName, line |-> line,
   stack |-> stack, severity |-> "error"]

\* a translator whose fallback reports the whole text, not the headline
extractErrors_wholeText(rawMessage, fallbackChunk) ==
  LET trimmed  == Trim(rawMessage)
      lines    == SplitLines(trimmed)
      headline == lines[1]
      stack    == JoinLines(Tail(lines))
      match    == PatternExec(headline)
      message  == IF Trim(match.message) = <<>> THEN RuntimeErrorText
                  ELSE Trim(match.message)
  IN  IF trimmed = <<>>
      THEN <<Diagnostic(UnknownErrorText, fallbackChunk, <<>>, <<>>)>>
      ELSE IF ~match.ok
      THEN <<Diagnostic(trimmed, fallbackChunk, <<>>, stack)>>
      ELSE <<Diagnostic(message, StripSigil(match.ident),
                        <<ParseInt(match.line)>>, stack)>>

extractErrors(rawMessage, fallbackChunk) ==
  LET trimmed  == Trim(rawMessage)
      lines    == SplitLines(trimmed)
      headline == lines[1]
      stack    == JoinLines(Tail(lines))
      match    == PatternExec(headline)
      message  == IF Trim(match.message) = <<>> THEN RuntimeErrorText
                  ELSE Trim(match.message)
  IN  IF trimmed = <<>>
      THEN <<Diagnostic(UnknownErrorText, fallbackChunk, <<>>, <<>>)>>
      ELSE IF ~match.ok
      THEN <<Diagnostic(headline, fallbackChunk, <<>>, stack)>>
      ELSE <<Diagnostic(message, StripSigil(match.ident),
                        <<ParseInt(match.line)>>, stack)>>

(***************************************************************************)
(* The interpreter as the orchestrator drives it (fengari's Lua 5.3).      *)
(***************************************************************************)
\* LUA_IDSIZE: the room the interpreter gives a chunk identity in its messages
LUA_IDSIZE == 60

\* luaO_chunkid for a source that begins with '@' (a file name), which is the
\* only kind of source run hands to luaL_loadbuffer
luaO_chunkid(source) ==
  IF Len(source) <= LUA_IDSIZE THEN Tail(source)
  ELSE <<".", ".", ".">>
         \o SubSeq(source, Len(source) - (LUA_IDSIZE - 4) + 1, Len(source))

\* luaG_addinfo: the position the interpreter puts before a message
AddInfo(source, line, msg) ==
  luaO_chunkid(source) \o <<":">> \o Digits(line) \o <<":", " ">> \o msg

\* Lua values: a type tag and a text (the characters of a string, the decimal
\* text of a number, the prefix of a logging hook)
LuaNil == [t |-> "nil", v |-> <<>>]
LuaStr(s) == [t |-> "string", v |-> s]
LuaNum(n) == [t |-> "number", v |-> Digits(n)]
LuaTable == [t |-> "table", v |-> <<>>]
\* a table whose metatable has a __tostring function: one that returns the
\* string v, one that raises an error, one that returns nil
LuaMeta(s) == [t |-> "meta", v |-> s]
LuaMetaFault == [t |-> "metafault", v |-> <<>>]
LuaMetaNil == [t |-> "metanil", v |-> <<>>]
\* the standard library's own print, which writes to the process's stdout
BuiltinPrint == [t |-> "builtin", v |-> <<>>]
\* the closure registerLoggingFunction installs
Logger(prefix) == [t |-> "logger", v |-> prefix]

\* luaL_tolstring: the display string of a value
luaL_tolstring(val) ==
  CASE val.t = "nil" -> <<"n", "i", "l">>
    [] val.t \in {"string", "number", "meta"} -> val.v
    [] val.t = "table" -> <<"t", "a", "b", "l", "e", ":", " ", "0", "x", "1">>
    [] OTHER -> <<"f", "u", "n", "c", "t", "i", "o", "n", ":", " ", "0", "x", "2">>

\* the messages of the faults
NilIndexText == <<"n", "i", "l">>
NilCallText == <<"c", "a", "l", "l">>
BoomText == <<"b", "o", "o", "m">>
SyntaxText == <<"s", "y", "n">>
MustReturnStringText == <<"'", "_", "_", "t", "o", "s", "t", "r", "i", "n", "g", "'", " ", "m", "u", "s", "t", " ", "r", "e", "t", "u", "r", "n", " ", "a", " ", "s", "t", "r", "i", "n", "g">>

\* luaL_tolstring calls a __tostring metamethod unprotected: whether the
\* conversion of val raises an error, and the error value it raises when the
\* hook was called at the given line of the chunk (the metamethod is defined
\* on line 1 of the same chunk)
tolstringRaises(val) == val.t \in {"metafault", "metanil"}

tolstringError(val, source, line) ==
  IF val.t = "metafault" THEN LuaStr(AddInfo(source, 1, BoomText))
  ELSE LuaStr(AddInfo(source, line, MustReturnStringText))

\* lua_tostring: the text of a string or a number, null (<<>>) for any other
\* value; the result is an optional text
lua_tostring(val) ==
  IF val.t \in {"string", "number"} THEN <<val.v>> ELSE <<>>

\* buffer.join('\t')
RECURSIVE JoinTab(_)
JoinTab(ts) ==
  IF ts = <<>> THEN <<>>
  ELSE IF Len(ts) = 1 THEN ts[1]
  ELSE ts[1] \o <<"\t">> \o JoinTab(Tail(ts))

GlobalNames == {"print", "warn", "game", "g"}

\* luaL_newstate: an interpreter with no globals yet
FreshGlobals == [n \in GlobalNames |-> LuaNil]

(***************************************************************************)
(* Chunks. A chunk's code is one of a catalogue of programs; a program is  *)
(* the line of its syntax error (0 when it compiles) and its statements.   *)
(***************************************************************************)
\* fn(args), and name = fn(args); the name "" stands for a discarded result
Call(fn, args, line) ==
  [op |-> "call", fn |-> fn, args |-> args, line |-> line, name |-> ""]
CallSet(name, fn, args, line) ==
  [op |-> "call", fn |-> fn, args |-> args, line |-> line, name |-> name]
SetGlobal(name, val) == [op |-> "set", name |-> name, val |-> val]
\* a fault the interpreter raises itself (indexing nil, calling nil, ...)
Fault(line, msg) == [op |-> "fault", line |-> line, msg |-> msg]
\* error(val, level)
Error(val, level, line) == [op |-> "error", val |-> val, level |-> level, line |-> line]
Return(n) == [op |-> "return", n |-> n]
\* argument expressions: a literal value, a global variable, os.time()
Lit(val) == [e |-> "lit", val |-> val, name |-> "g"]
Var(name) == [e |-> "var", val |-> LuaNil, name |-> name]
OsTime == [e |-> "time", val |-> LuaNil, name |-> "g"]

Program(code) ==
  CASE code = "print2" ->
         \* print("a", "b")
         [syntax |-> 0,
          ops |-> <<Call("print", <<Lit(LuaStr(<<"a">>)), Lit(LuaStr(<<"b">>))>>, 1)>>]
    [] code = "warnret" ->
         \* warn("w", 7); return 1, 2
         [syntax |-> 0,
          ops |-> <<Call("warn", <<Lit(LuaStr(<<"w">>)), Lit(LuaNum(7))>>, 1),
                    Return(2)>>]
    [] code = "noargs" ->
         \* print()
         [syntax |-> 0, ops |-> <<Call("print", <<>>, 1)>>]
    [] code = "nilindex" ->
         \* local x = nil \n print(x.y)
         [syntax |-> 0, ops |-> <<Fault(2, NilIndexText)>>]
    [] code = "printboom" ->
         \* print("p") \n error("boom")
         [syntax |-> 0,
          ops |-> <<Call("print", <<Lit(LuaStr(<<"p">>))>>, 1),
                    Error(LuaStr(BoomText), 1, 2)>>]
    [] code = "syntax" ->
         \* x =
         [syntax |-> 1, ops |-> <<Call("print", <<Lit(LuaStr(<<"s">>))>>, 1)>>]
    [] code = "errtable" ->
         \* print("e") \n error({})
         [syntax |-> 0,
          ops |-> <<Call("print", <<Lit(LuaStr(<<"e">>))>>, 1),
                    Error(LuaTable, 1, 2)>>]
    [] code = "errnil" ->
         \* error(nil)
         [syntax |-> 0, ops |-> <<Error(LuaNil, 1, 1)>>]
    [] code = "errlevel0" ->
         \* error("boom", 0)
         [syntax |-> 0, ops |-> <<Error(LuaStr(BoomText), 0, 1)>>]
    [] code = "readset" ->
         \* print(g) \n g = 1
         [syntax |-> 0,
          ops |-> <<Call("print", <<Var("g")>>, 1), SetGlobal("g", LuaNum(1))>>]
    [] code = "printret" ->
         \* g = print("a") \n print(g)
         [syntax |-> 0,
          ops |-> <<CallSet("g", "print", <<Lit(LuaStr(<<"a">>))>>, 1),
                    Call("print", <<Var("g")>>, 2)>>]
    [] code = "time" ->
         \* print(os.time())
         [syntax |-> 0, ops |-> <<Call("print", <<OsTime>>, 1)>>]
    [] code = "tostringok" ->
         \* local o = setmetatable({}, {__tostring = function() return "obj" end})
         \* print("a", o) \n print("z")
         [syntax |-> 0,
          ops |-> <<Call("print", <<Lit(LuaStr(<<"a">>)),
                                    Lit(LuaMeta(<<"o", "b", "j">>))>>, 2),
                    Call("print", <<Lit(LuaStr(<<"z">>))>>, 3)>>]
    [] code = "tostringfault" ->
         \* local o = setmetatable({}, {__tostring = function() error("boom") end})
         \* print("a", o) \n print("z")
         [syntax |-> 0,
          ops |-> <<Call("print", <<Lit(LuaStr(<<"a">>)), Lit(LuaMetaFault)>>, 2),
                    Call("print", <<Lit(LuaStr(<<"z">>))>>, 3)>>]
    [] code = "tostringnil" ->
         \* local o = setmetatable({}, {__tostring = function() return nil end})
         \* warn(o) \n print("z")
         [syntax |-> 0,
          ops |-> <<Call("warn", <<Lit(LuaMetaNil)>>, 2),
                    Call("print", <<Lit(LuaStr(<<"z">>))>>, 3)>>]
    [] code = "env" ->
         \* the synthesized environment: installs the stand-in global
         [syntax |-> 0, ops |-> <<SetGlobal("game", LuaTable)>>]
    [] code = "envsyntax" ->
         [syntax |-> 1, ops |-> <<>>]
    [] code = "envfault" ->
         [syntax |-> 0, ops |-> <<Fault(1, NilCallText)>>]
    [] code = "envraise" ->
         \* error("boom", 0): a message without a position
         [syntax |-> 0, ops |-> <<Error(LuaStr(BoomText), 0, 1)>>]

\* the value of an argument expression
Eval(arg, globals, clock) ==
  CASE arg.e = "lit" -> arg.val
    [] arg.e = "var" -> globals[arg.name]
    [] arg.e = "time" -> LuaNum(clock)

\* a hook that joins the display strings with spaces
logger_spaces(prefix, args) ==
  [line    |-> prefix \o
                 (IF Len(args) < 2 THEN JoinTab([i \in 1..Len(args) |-> luaL_tolstring(args[i])])
                  ELSE luaL_tolstring(args[1]) \o <<" ">> \o luaL_tolstring(args[2])),
   results |-> <<>>,
   raised  |-> SelectSeq(args, tolstringRaises)]

\* a hook that hands its last argument back to the script
logger_returns(prefix, args) ==
  [line    |-> prefix \o JoinTab([i \in 1..Len(args) |-> luaL_tolstring(args[i])]),
   results |-> IF args = <<>> THEN <<>> ELSE <<args[Len(args)]>>,
   raised  |-> SelectSeq(args, tolstringRaises)]

\* the closure registerLoggingFunction installs, called with the values args:
\* one line, the prefix and the display strings joined by tabs,
\* and no results (return 0); raised holds the arguments whose conversion
\* raises an error, the first of which ends the call before the line is pushed
logger(prefix, args) ==
  [line    |-> prefix \o JoinTab([i \in 1..Len(args) |-> luaL_tolstring(args[i])]),
   results |-> <<>>,
   raised  |-> SelectSeq(args, tolstringRaises)]

\* one statement of a running chunk on the execution state st
Step(op, st, source, clock) ==
  CASE op.op = "call" ->
         LET f == st.globals[op.fn]
             args == [i \in 1..Len(op.args) |-> Eval(op.args[i], st.globals, clock)]
             r == logger(f.v, args)
             \* name = fn(args): the first result, nil when there is none
             first == IF r.results = <<>> THEN LuaNil ELSE r.results[1]
         IN  IF f.t = "logger" /\ r.raised # <<>>
             THEN [st EXCEPT !.status = "error",
                             !.err = tolstringError(r.raised[1], source, op.line)]
             ELSE IF f.t = "logger"
             THEN [st EXCEPT !.emitted = Append(@, r.line),
                             !.globals = IF op.name = "" THEN @
                                         ELSE [@ EXCEPT ![op.name] = first]]
             ELSE IF f.t = "builtin"
             THEN [st EXCEPT !.globals = IF op.name = "" THEN @
                                         ELSE [@ EXCEPT ![op.name] = LuaNil]]
             ELSE [st EXCEPT !.status = "error",
                             !.err = LuaStr(AddInfo(source, op.line, NilCallText))]
    [] op.op = "set" -> [st EXCEPT !.globals[op.name] = op.val]
    [] op.op = "fault" ->
         [st EXCEPT !.status = "error",
                    !.err = LuaStr(AddInfo(source, op.line, op.msg))]
    [] op.op = "error" ->
         [st EXCEPT !.status = "error",
                    !.err = IF op.val.t = "string" /\ op.level > 0
                            THEN LuaStr(AddInfo(source, op.line, op.val.v))
                            ELSE op.val]
    [] op.op = "return" -> [st EXCEPT !.status = "ok", !.nret = op.n]

RECURSIVE RunOps(_, _, _, _)
RunOps(ops, st, source, clock) ==
  IF st.status # "running" THEN st
  ELSE IF ops = <<>> THEN [st EXCEPT !.status = "ok"]
  ELSE RunOps(Tail(ops), Step(Head(ops), st, source, clock), source, clock)

\* a driver that calls the chunk's statements before it looks at the status of
\* the compilation
LoadAndCall_callsFirst(code, source, globals, clock) ==
  LET prog == Program(code)
      st0  == [status |-> "running", globals |-> globals, emitted |-> <<>>,
               err |-> LuaNil, nret |-> 0]
      ran  == RunOps(prog.ops, st0, source, clock)
  IN  IF prog.syntax > 0
      THEN [ran EXCEPT !.status = "syntax",
                       !.err = LuaStr(AddInfo(source, prog.syntax, SyntaxText))]
      ELSE ran

\* luaL_loadbuffer followed, when it compiled, by lua_pcall(L, 0, LUA_MULTRET, 0):
\* what the two calls leave behind. status is "syntax" (the compile failed and
\* err is its message), "error" (the call failed and err is the error value) or
\* "ok" (nret values returned).
LoadAndCall(code, source, globals, clock) ==
  LET prog == Program(code)
      st0  == [status |-> "running", globals |-> globals, emitted |-> <<>>,
               err |-> LuaNil, nret |-> 0]
  IN  IF prog.syntax > 0
      THEN [st0 EXCEPT !.status = "syntax",
                       !.err = LuaStr(AddInfo(source, prog.syntax, SyntaxText))]
      ELSE RunOps(prog.ops, st0, source, clock)

(***************************************************************************)
(* Run Options.                                                            *)
(***************************************************************************)
\* most preload chunks in one call
MaxPreloads == 3
\* latest reading of the clock
MaxClock == 1

Chunk(code, chunkName) == [code |-> code, chunkName |-> chunkName]
\* an optional chunk that was not supplied
NoChunk == Chunk("none", <<>>)

RECURSIVE Repeat(_, _)
Repeat(c, n) == IF n = 0 THEN <<>> ELSE <<c>> \o Repeat(c, n - 1)

\* a chunk name too long for the interpreter to report whole
LongName == Repeat("d", LUA_IDSIZE)

\* chunkName: '@roblox-prelude', the identity of the environment chunk
PreludeChunkName ==
  <<"@", "r", "o", "b", "l", "o", "x", "-", "p", "r", "e", "l", "u", "d", "e">>

TargetCodes ==
  {"print2", "warnret", "noargs", "nilindex", "printboom", "syntax",
   "errtable", "errnil", "errlevel0", "readset", "printret", "time",
   "tostringok", "tostringfault", "tostringnil"}

\* the targets: every program under a short name; the two faulty programs under
\* a path with a drive letter, under a long name, and under the name the
\* interpreter reports the environment chunk by; and a program that raises a
\* message without a position, under a name that begins with '@'
TargetChunks ==
  {Chunk(c, <<"t">>) : c \in TargetCodes}
    \cup {Chunk(c, n) : c \in {"nilindex", "syntax"},
                        n \in {<<"C", ":", "t">>, LongName, Tail(PreludeChunkName)}}
    \cup {Chunk("errlevel0", <<"@", "t">>)}

BootstrapChunks == {NoChunk, Chunk("print2", <<"b">>), Chunk("syntax", <<"b">>)}

PreloadChunks == {Chunk("printboom", <<"q">>), Chunk("readset", <<"r">>)}

RECURSIVE SeqsUpTo(_, _)
SeqsUpTo(S, n) ==
  IF n = 0 THEN {<<>>}
  ELSE LET shorter == SeqsUpTo(S, n - 1)
       IN  shorter \cup {Append(q, x) : q \in {t \in shorter : Len(t) = n - 1},
                                       x \in S}

\* stubbedServices: not supplied, or a list; what buildPrelude makes of a list
\* decides whether the environment chunk compiles and runs
ServiceLists == {"undefined", "unloadable", "faulting", "raising"}

Options(chunk, prelude, preloads, stubbedServices) ==
  [chunk |-> chunk, prelude |-> prelude, preloads |-> preloads,
   stubbedServices |-> stubbedServices]

\* the targets run behind every bootstrap and preload sequence
PipelineTargets ==
  {Chunk(c, <<"t">>) : c \in {"warnret", "nilindex", "readset", "errtable"}}

\* The calls enumerated: every target alone; the pipeline targets behind every
\* bootstrap and preload sequence; and calls whose environment setup fails.
OptionsSet ==
  {Options(c, NoChunk, <<>>, "undefined") : c \in TargetChunks}
    \cup {Options(c, b, ps, "undefined") :
            c \in PipelineTargets, b \in BootstrapChunks,
            ps \in SeqsUpTo(PreloadChunks, MaxPreloads)}
    \cup {Options(Chunk("print2", <<"t">>), b, ps, sv) :
            b \in BootstrapChunks, ps \in SeqsUpTo(PreloadChunks, 1),
            sv \in ServiceLists}

NoOptions ==
  [chunk |-> NoChunk, prelude |-> NoChunk, preloads |-> <<>>,
   stubbedServices |-> "undefined"]

\* buildPrelude(extraServices ?? DEFAULT_STUBBED_SERVICES): the code of the
\* synthesized environment chunk
buildPrelude(services) ==
  CASE services = "unloadable" -> "envsyntax"
    [] services = "faulting" -> "envfault"
    [] services = "raising" -> "envraise"
    [] OTHER -> "env"

WarnPrefix == <<"[", "w", "a", "r", "n", "]", " ">>

(***************************************************************************)
(* The editor: documents, settings and the files preloads are read from.   *)
(***************************************************************************)
\* String.toLowerCase, on the capitals the names below hold
ToLower(c) ==
  CASE c = "C" -> "c"
    [] c = "L" -> "l"
    [] c = "U" -> "u"
    [] OTHER -> c

toLowerCase(s) == [i \in 1..Len(s) |-> ToLower(s[i])]

\* a TextDocument: its language, its uri (scheme and fsPath), its fileName and
\* its text
Doc(languageId, scheme, fsPath, code) ==
  [languageId |-> languageId, scheme |-> scheme, fsPath |-> fsPath,
   fileName |-> fsPath, code |-> code]

NoDoc == Doc(<<>>, "none", <<>>, "none")

\* document.lineCount: the lines of the document's text
lineCount(doc) ==
  CASE doc.code \in {"nilindex", "printboom", "errtable", "readset", "printret"} -> 2
    [] OTHER -> 1

LuaId == <<"l", "u", "a">>
LuauId == <<"L", "u", "a", "u">>
PythonId == <<"p", "y">>

ShortPath == <<"/", "w", "/", "t">>
\* a path of LUA_IDSIZE characters
LongPath == <<"/", "w", "/">> \o Repeat("d", LUA_IDSIZE - 3)
DrivePath == <<"C", ":", "\\", "t">>

\* the programs open in the editor
DocCodes == {"print2", "nilindex", "syntax", "errtable"}

EditorDocs ==
  {Doc(LuaId, "file", ShortPath, c) : c \in DocCodes}
    \cup {Doc(LuaId, "file", n, c) : n \in {LongPath, DrivePath},
                                     c \in {"nilindex", "syntax"}}
    \cup {Doc(LuauId, "untitled", <<"U">>, "nilindex"),
          Doc(PythonId, "file", <<"/", "w", "/", "y">>, "nilindex")}

\* getChunkName(document)
getChunkName(doc) ==
  IF doc.scheme = "file" THEN doc.fsPath ELSE doc.fileName

\* isLuauDocument(document)
isLuauDocument(doc) ==
  LET languageId == toLowerCase(doc.languageId)
  IN  languageId = <<"l", "u", "a">> \/ languageId = <<"l", "u", "a", "u">>

\* the settings of the rs-code-simulator section; "absent" is a setting the
\* user has not made
Settings(runOnSave, preloadScripts, showOutputOnSuccess, platform) ==
  [runOnSave |-> runOnSave, preloadScripts |-> preloadScripts,
   showOutputOnSuccess |-> showOutputOnSuccess, platform |-> platform]

\* the files on disk that can be read, with the program each holds
Files ==
  [path \in {<<"/", "w", "/", "p">>, <<"/", "q">>, <<"/", "s", "/", "p">>,
             <<"/", "w", "/", "r">>, <<"/", "v", "/", "r">>,
             <<"/", "v", "/", "x">>} |->
     CASE path = <<"/", "q">> -> "printboom"
       [] path \in {<<"/", "s", "/", "p">>, <<"/", "v", "/", "r">>} -> "print2"
       [] OTHER -> "readset"]

\* vscode.workspace.workspaceFolders
workspaceFolders == <<<<"/", "w">>, <<"/", "v">>>>

\* runtime.preloadScripts as configured
PreloadEntries ==
  {<<>>,
   <<<<" ", "p", " ">>, <<"/", "m">>>>,
   <<<<"/", "q">>, <<" ">>>>}

SettingsSet ==
  {Settings(r, e, "absent", pf) :
     r \in {"absent", "true", "false"}, e \in PreloadEntries,
     pf \in {"posix", "win32"}}

\* config.get<boolean>('runtime.runOnSave', true)
runOnSave_defaultTrue(settings) ==
  IF settings.runOnSave = "absent" THEN TRUE ELSE settings.runOnSave = "true"

\* config.get<boolean>('runtime.runOnSave', false)
runOnSave(settings) ==
  IF settings.runOnSave = "absent" THEN FALSE ELSE settings.runOnSave = "true"

\* configuration.get<boolean>('runtime.showOutputOnSuccess', mode === 'single')
showOutputOnSuccess(settings, simulationMode) ==
  IF settings.showOutputOnSuccess = "absent" THEN simulationMode = "single"
  ELSE settings.showOutputOnSuccess = "true"

\* most entries of runtime.preloadScripts
MaxEntries == 3

\* the entries a user lists: blank, relative (padded, plain), absolute, and
\* relative to nothing that exists
EntrySet ==
  {<<" ">>, <<" ", "p", " ">>, <<"r">>, <<"x">>, <<"/", "q">>, <<"n">>}

\* the documents preloads are resolved for: one outside the workspace folders,
\* one inside the first, one that is not a file
ResolveDocs ==
  {Doc(LuaId, "file", <<"/", "s", "/", "t">>, "print2"),
   Doc(LuaId, "file", ShortPath, "print2"),
   Doc(LuauId, "untitled", <<"U">>, "nilindex")}

ResolveSettings ==
  {Settings("absent", e, "absent", "posix") :
     e \in SeqsUpTo(EntrySet, MaxEntries)}

\* the uris the diagnostic collection is keyed by
DocUris == {getChunkName(d) : d \in EditorDocs \cup ResolveDocs}

NoEvent == [kind |-> "none", document |-> NoDoc, started |-> FALSE,
            before |-> <<>>]

(***************************************************************************)
(* State.                                                                  *)
(***************************************************************************)
VARIABLES
  pc,             \* where the current call of run stands
  options,        \* the Run Options of the current call
  lstate,         \* the call's interpreter: "none", "open" or "closed"
  closeCount,     \* how often lua_close was called on it
  globals,        \* the interpreter's global table
  stackDepth,     \* the depth of the interpreter's value stack
  output,         \* the transcript
  errors,         \* the Diagnostics
  runStart,       \* the start timestamp
  now,            \* the clock (performance.now, os.time)
  idx,            \* the preload the loop stands at
  completion,     \* how the try block was left: "none", "return", "throw"
  result,         \* <<>> or <<the Run Result the call returns>>
  trace,          \* history: hooks installed, stages begun, interpreter closed
  origin,         \* history: the stage that emitted each transcript line
  errorOrigin,    \* history: the stage each Diagnostic came from
  prev,           \* history: <<outcome of the call before>> when it had the
                  \* same Options as the current one, else <<>>
  rawMessage,     \* translator harness: the raw interpreter text
  fallbackChunk,  \* translator harness: the fallback identity
  translated,     \* translator harness: <<>> or <<extractErrors(...)>>
  epc,            \* editor: where the extension stands
  document,       \* editor: the document of the handler at work
  mode,           \* editor: the SimulationMode of the simulation at work
  settings,       \* editor: the user's settings
  diagnostics,    \* editor: the DiagnosticCollection, by document uri
  preloads,       \* editor: the preload chunks resolved
  missing,        \* editor: the preload entries not found
  channel,        \* editor: the lines the handler at work wrote to the channel
  notices,        \* editor: the messages the handler at work showed
  simResult,      \* editor: <<>> or <<the Result simulateDocument returned>>
  lastEvent,      \* history: the last event, whether it started a simulation,
                  \* and the document's diagnostics before it
  callTime        \* history: the clock when run was called

tvars == <<rawMessage, fallbackChunk, translated>>

rvars ==
  <<pc, options, lstate, closeCount, globals, stackDepth, output, errors,
    runStart, now, idx, completion, result, trace, origin, errorOrigin, prev>>

evars ==
  <<epc, document, mode, settings, diagnostics, preloads, missing, channel,
    notices, simResult, lastEvent>>

vars ==
  <<pc, options, lstate, closeCount, globals, stackDepth, output, errors,
    runStart, now, idx, completion, result, trace, origin, errorOrigin, prev,
    rawMessage, fallbackChunk, translated,
    epc, document, mode, settings, diagnostics, preloads, missing, channel,
    notices, simResult, lastEvent, callTime>>

\* a step of the pipeline: its kind, its position among its kind, the name of
\* the chunk it runs
Stage(kind, index, chunkName) ==
  [kind |-> kind, index |-> index, chunkName |-> chunkName]

RInit ==
  /\ pc = "idle"
  /\ options = NoOptions
  /\ lstate = "none"
  /\ closeCount = 0
  /\ globals = FreshGlobals
  /\ stackDepth = 0
  /\ output = <<>>
  /\ errors = <<>>
  /\ runStart = 0
  /\ now = 0
  /\ idx = 1
  /\ completion = "none"
  /\ result = <<>>
  /\ trace = <<>>
  /\ origin = <<>>
  /\ errorOrigin = <<>>
  /\ prev = <<>>
  /\ callTime = 0

\* the extension activated, nothing run yet, under the settings st
EIdle(st) ==
  /\ epc = "ready"
  /\ document = NoDoc
  /\ mode = "single"
  /\ settings = st
  /\ diagnostics = [u \in DocUris |-> <<>>]
  /\ preloads = <<>>
  /\ missing = <<>>
  /\ channel = <<>>
  /\ notices = <<>>
  /\ simResult = <<>>
  /\ lastEvent = NoEvent

Init ==
  /\ RInit
  /\ rawMessage = <<>>
  /\ fallbackChunk = <<>>
  /\ translated = <<>>
  /\ EIdle(Settings("absent", <<>>, "absent", "posix"))

(***************************************************************************)
(* RobloxSimulator.run, statement by statement.                            *)
(***************************************************************************)
\* the caller invokes run(o): a first call with any Options, and after a call
\* has ended, further calls with the same Options
CallRun(o) ==
  /\ \/ pc = "idle"
     \/ pc \in {"returned", "thrown"} /\ o = options
  /\ pc' = "newstate"
  /\ options' = o
  /\ prev' = IF pc # "idle" /\ o = options
             THEN <<[returned |-> pc = "returned",
                     result |-> [i \in 1..Len(result) |->
                                   [success |-> result[i].success,
                                    errors |-> result[i].errors,
                                    output |-> result[i].output]]]>>
             ELSE <<>>
  /\ lstate' = "none"
  /\ closeCount' = 0
  /\ idx' = 1
  /\ completion' = "none"
  /\ result' = <<>>
  /\ trace' = <<>>
  /\ callTime' = now
  /\ UNCHANGED <<globals, stackDepth, output, errors, runStart, now, origin,
                 errorOrigin, tvars, evars>>

\* an interpreter kept from the call before
luaL_newstate_reused == [globals |-> globals, stackDepth |-> stackDepth]

\* luaL_newstate: a fresh interpreter
luaL_newstate == [globals |-> FreshGlobals, stackDepth |-> 0]

\* const L = lauxlib.luaL_newstate(); the host may fail to provide one
NewState(faults) ==
  /\ pc = "newstate"
  /\ \E fault \in faults :
       IF fault
       THEN /\ pc' = "thrown"
            /\ UNCHANGED <<lstate, globals, stackDepth>>
       ELSE /\ pc' = "openlibs"
            /\ lstate' = "open"
            /\ globals' = luaL_newstate.globals
            /\ stackDepth' = luaL_newstate.stackDepth
  /\ UNCHANGED <<options, closeCount, output, errors, runStart, now, idx,
                 completion, result, trace, origin, errorOrigin, prev, tvars, evars, callTime>>

\* lualib.luaL_openlibs(L); const output = []
OpenLibs(faults) ==
  /\ pc = "openlibs"
  /\ \E fault \in faults :
       IF fault
       THEN /\ pc' = "thrown"
            /\ UNCHANGED <<globals, output, origin>>
       ELSE /\ pc' = "reg_print"
            /\ globals' = [globals EXCEPT !["print"] = BuiltinPrint]
            /\ output' = <<>>
            /\ origin' = <<>>
  /\ UNCHANGED <<options, lstate, closeCount, stackDepth, errors, runStart, now,
                 idx, completion, result, trace, errorOrigin, prev, tvars, evars, callTime>>

\* registerLoggingFunction: lua_pushcfunction; lua_setglobal
registerLoggingFunction(g, functionName, prefix) ==
  [g EXCEPT ![functionName] = Logger(prefix)]

\* this.registerLoggingFunction(L, 'print', output)
RegisterPrint(faults) ==
  /\ pc = "reg_print"
  /\ \E fault \in faults :
       IF fault
       THEN /\ pc' = "thrown"
            /\ UNCHANGED <<globals, trace>>
       ELSE /\ pc' = "reg_warn"
            /\ globals' = registerLoggingFunction(globals, "print", <<>>)
            /\ trace' = Append(trace, Stage("hook", 1, <<>>))
  /\ UNCHANGED <<options, lstate, closeCount, stackDepth, output, errors,
                 runStart, now, idx, completion, result, origin, errorOrigin,
                 prev, tvars, evars, callTime>>

\* this.registerLoggingFunction(L, 'warn', output, '[warn] ')
RegisterWarn(faults) ==
  /\ pc = "reg_warn"
  /\ \E fault \in faults :
       IF fault
       THEN /\ pc' = "thrown"
            /\ UNCHANGED <<globals, trace>>
       ELSE /\ pc' = "timer"
            /\ globals' = registerLoggingFunction(globals, "warn", WarnPrefix)
            /\ trace' = Append(trace, Stage("hook", 2, <<>>))
  /\ UNCHANGED <<options, lstate, closeCount, stackDepth, output, errors,
                 runStart, now, idx, completion, result, origin, errorOrigin,
                 prev, tvars, evars, callTime>>

\* const runStart = performance.now(); const errors = []
StartTimer ==
  /\ pc = "timer"
  /\ pc' = "prelude"
  /\ runStart' = now
  /\ errors' = <<>>
  /\ errorOrigin' = <<>>
  /\ UNCHANGED <<options, lstate, closeCount, globals, stackDepth, output, now,
                 idx, completion, result, trace, origin, prev, tvars, evars, callTime>>

\* initializePrelude(L, extraServices): load and call the synthesized
\* environment chunk. What it leaves: threw (to_jsstring was handed null),
\* diags (the Diagnostic it returns, if any), and the interpreter's new state.
initializePrelude(extraServices) ==
  LET r    == LoadAndCall(buildPrelude(extraServices), PreludeChunkName,
                          globals, now)
      text == lua_tostring(r.err)
  IN  [threw      |-> r.status = "error" /\ text = <<>>,
       diags      |-> IF r.status = "ok" \/ text = <<>> THEN <<>>
                      ELSE <<extractErrors(text[1], PreludeChunkName)[1]>>,
       emitted    |-> r.emitted,
       globals    |-> r.globals,
       \* the message or error value is left on the stack
       stackDepth |-> IF r.status = "ok" THEN stackDepth + r.nret
                      ELSE stackDepth + 1]

\* executeChunk(L, chunk, errors): load and call one user chunk
executeChunk(chunk) ==
  LET r    == LoadAndCall(chunk.code, <<"@">> \o chunk.chunkName, globals, now)
      text == lua_tostring(r.err)
  IN  [threw      |-> r.status = "error" /\ text = <<>>,
       diags      |-> IF r.status = "ok" \/ text = <<>> THEN <<>>
                      ELSE extractErrors(text[1], chunk.chunkName),
       emitted    |-> r.emitted,
       globals    |-> r.globals,
       \* lua_pop(L, 1) after a Diagnostic; returned values are left
       stackDepth |-> IF r.status = "ok" THEN stackDepth + r.nret
                      ELSE IF text = <<>> THEN stackDepth + 1
                      ELSE stackDepth]

\* the effect of a stage x, begun as stage st, on the interpreter, the
\* transcript and the Diagnostics
Effects(x, st) ==
  /\ globals' = x.globals
  /\ stackDepth' = x.stackDepth
  /\ output' = output \o x.emitted
  /\ origin' = origin \o [i \in 1..Len(x.emitted) |-> st]
  /\ errors' = errors \o x.diags
  /\ errorOrigin' = errorOrigin \o [i \in 1..Len(x.diags) |-> st]
  /\ trace' = Append(trace, st)

\* a return that hands back the transcript only when the call succeeded
ReturnResult_dropsOutput(success) ==
  /\ result' = <<[success |-> success, durationMs |-> now - runStart,
                  errors |-> errors',
                  output |-> IF success THEN output' ELSE <<>>]>>
  /\ completion' = "return"
  /\ pc' = "finally"

\* return { success, durationMs: performance.now() - runStart, errors, output }
\* inside the try block: the value is built, then the finally clause runs
ReturnResult(success) ==
  /\ result' = <<[success |-> success, durationMs |-> now - runStart,
                  errors |-> errors', output |-> output']>>
  /\ completion' = "return"
  /\ pc' = "finally"

\* a pipeline that goes on after a failed stage
ShouldStop_never(errs) == FALSE

\* if (errors.length): a stage left a Diagnostic
ShouldStop(errs) == Len(errs) # 0

\* a final result that reports success whatever the target did
Success_always(errs) == TRUE

\* success: errors.length === 0
Success(errs) == Len(errs) = 0

\* an exception leaves the try block
Throw ==
  /\ result' = <<>>
  /\ completion' = "throw"
  /\ pc' = "finally"

\* const preludeError = this.initializePrelude(L, stubbedServices);
\* if (preludeError) { errors.push(preludeError); return {...} }
InitializePrelude ==
  /\ pc = "prelude"
  /\ LET x == initializePrelude(options.stubbedServices)
     IN  /\ Effects(x, Stage("env", 0, PreludeChunkName))
         /\ IF x.threw THEN Throw
            ELSE IF x.diags # <<>> THEN ReturnResult(FALSE)
            ELSE /\ pc' = "bootstrap"
                 /\ UNCHANGED <<result, completion>>
  /\ UNCHANGED <<options, lstate, closeCount, runStart, now, idx, prev, tvars, evars, callTime>>

\* a pipeline that ignores the shared bootstrap chunk
Bootstrap_skipped ==
  /\ pc = "bootstrap"
  /\ pc' = "preloads"
  /\ UNCHANGED <<options, lstate, closeCount, globals, stackDepth, output,
                 errors, runStart, now, idx, completion, result, trace, origin,
                 errorOrigin, prev, tvars, evars, callTime>>

\* if (prelude) { this.executeChunk(L, prelude, errors);
\*                if (errors.length) return {...} }
Bootstrap ==
  /\ pc = "bootstrap"
  /\ IF options.prelude = NoChunk
     THEN /\ pc' = "preloads"
          /\ UNCHANGED <<globals, stackDepth, output, origin, errors,
                         errorOrigin, trace, result, completion>>
     ELSE LET x == executeChunk(options.prelude)
          IN  /\ Effects(x, Stage("bootstrap", 0, options.prelude.chunkName))
              /\ IF x.threw THEN Throw
                 ELSE IF ShouldStop(errors') THEN ReturnResult(FALSE)
                 ELSE /\ pc' = "preloads"
                      /\ UNCHANGED <<result, completion>>
  /\ UNCHANGED <<options, lstate, closeCount, runStart, now, idx, prev, tvars, evars, callTime>>

\* for (const preload of preloads ?? []) { this.executeChunk(L, preload, errors);
\*                                         if (errors.length) return {...} }
Preload ==
  /\ pc = "preloads"
  /\ IF idx > Len(options.preloads)
     THEN /\ pc' = "target"
          /\ UNCHANGED <<globals, stackDepth, output, origin, errors,
                         errorOrigin, trace, result, completion, idx>>
     ELSE LET x == executeChunk(options.preloads[idx])
          IN  /\ Effects(x, Stage("preload", idx, options.preloads[idx].chunkName))
              /\ idx' = idx + 1
              /\ IF x.threw THEN Throw
                 ELSE IF ShouldStop(errors') THEN ReturnResult(FALSE)
                 ELSE /\ pc' = "preloads"
                      /\ UNCHANGED <<result, completion>>
  /\ UNCHANGED <<options, lstate, closeCount, runStart, now, prev, tvars, evars, callTime>>

\* this.executeChunk(L, chunk, errors);
\* return { success: errors.length === 0, ... }
Target ==
  /\ pc = "target"
  /\ LET x == executeChunk(options.chunk)
     IN  /\ Effects(x, Stage("target", 0, options.chunk.chunkName))
         /\ IF x.threw THEN Throw ELSE ReturnResult(Success(errors'))
  /\ UNCHANGED <<options, lstate, closeCount, runStart, now, idx, prev, tvars, evars, callTime>>

\* finally { if (typeof lua.lua_close === 'function') lua.lua_close(L); }
\* and then the pending return or throw completes. The interpreter library
\* exports lua_close, so the test is true.
Finally ==
  /\ pc = "finally"
  /\ lstate' = "closed"
  /\ closeCount' = closeCount + 1
  /\ trace' = Append(trace, Stage("close", 0, <<>>))
  /\ pc' = IF completion = "return" THEN "returned" ELSE "thrown"
  /\ UNCHANGED <<options, globals, stackDepth, output, errors, runStart, now,
                 idx, completion, result, origin, errorOrigin, prev, tvars, evars, callTime>>

\* time passes
Tick ==
  /\ now < MaxClock
  /\ now' = now + 1
  /\ UNCHANGED <<pc, options, lstate, closeCount, globals, stackDepth, output,
                 errors, runStart, idx, completion, result, trace, origin,
                 errorOrigin, prev, tvars, evars, callTime>>

Next ==
  \/ \E o \in (IF pc = "idle" THEN OptionsSet ELSE {options}) : CallRun(o)
  \/ NewState(BOOLEAN)
  \/ OpenLibs(BOOLEAN)
  \/ RegisterPrint(BOOLEAN)
  \/ RegisterWarn(BOOLEAN)
  \/ StartTimer
  \/ InitializePrelude
  \/ Bootstrap
  \/ Preload
  \/ Target
  \/ Finally
  \/ Tick

\* run on its own; a call into the host (creating the interpreter, installing
\* the libraries and the hooks) may fail
Spec == Init /\ [][Next]_vars

\* the same with a host whose calls never fail
NextHostOk ==
  \/ \E o \in (IF pc = "idle" THEN OptionsSet ELSE {options}) : CallRun(o)
  \/ NewState({FALSE})
  \/ OpenLibs({FALSE})
  \/ RegisterPrint({FALSE})
  \/ RegisterWarn({FALSE})
  \/ StartTimer
  \/ InitializePrelude
  \/ Bootstrap
  \/ Preload
  \/ Target
  \/ Finally
  \/ Tick

SpecHostOk == Init /\ [][NextHostOk]_vars

(***************************************************************************)
(* The extension: the handlers activate registers, and simulateDocument.   *)
(***************************************************************************)
\* path.normalize on a path without '.' or '..' segments: runs of separators
\* become one separator; on win32 '/' is a separator too and becomes '\'
RECURSIVE Collapse(_, _)
Collapse(s, sep) ==
  IF Len(s) < 2 THEN s
  ELSE IF s[1] = sep /\ s[2] = sep THEN Collapse(Tail(s), sep)
  ELSE <<s[1]>> \o Collapse(Tail(s), sep)

normalize(value, platform) ==
  IF value = <<>> THEN <<".">>
  ELSE IF platform = "win32"
  THEN Collapse([i \in 1..Len(value) |->
                   IF value[i] = "/" THEN "\\" ELSE value[i]], "\\")
  ELSE Collapse(value, "/")

\* normalizePath(value)
normalizePath(value, platform) ==
  LET normalized == normalize(value, platform)
  IN  IF platform = "win32" THEN toLowerCase(normalized) ELSE normalized

\* equalsPath(left, right)
equalsPath(left, right, platform) ==
  normalizePath(left, platform) = normalizePath(right, platform)

\* clampToDocument(document, line)
clampToDocument(doc, line) ==
  IF line < 0 THEN 0
  ELSE IF line >= lineCount(doc) THEN lineCount(doc) - 1
  ELSE line

\* applyDiagnostics(document, diagnostics, result): the entries it sets for the
\* document (a vscode.Diagnostic: the line of its range, message, severity)
applyDiagnostics(doc, res, platform) ==
  LET relevant(error) == equalsPath(error.chunkName, getChunkName(doc), platform)
      relevantErrors == SelectSeq(res.errors, relevant)
  IN  [i \in 1..Len(relevantErrors) |->
         [line |-> clampToDocument(doc, (IF relevantErrors[i].line = <<>> THEN 1
                                         ELSE relevantErrors[i].line[1]) - 1),
          message |-> relevantErrors[i].message,
          severity |-> IF relevantErrors[i].severity = "warning" THEN "Warning"
                       ELSE "Error"]]

\* path.dirname
RECURSIVE LastIndexOf(_, _)
LastIndexOf(s, c) ==
  IF s = <<>> THEN 0
  ELSE IF s[Len(s)] = c THEN Len(s)
  ELSE LastIndexOf(SubSeq(s, 1, Len(s) - 1), c)

dirname(p) ==
  LET k == LastIndexOf(p, "/")
  IN  IF k = 0 THEN <<".">>
      ELSE IF k = 1 THEN <<"/">>
      ELSE SubSeq(p, 1, k - 1)

\* path.isAbsolute
isAbsolute(entry) == entry # <<>> /\ Head(entry) = "/"

\* path.join(folder, entry), Uri.joinPath(folder.uri, entry)
join(folder, entry) == Collapse(folder \o <<"/">> \o entry, "/")

\* a loop that goes on after a candidate was read: the last one wins
RECURSIVE FirstReadable_last(_)
FirstReadable_last(candidateUris) ==
  IF candidateUris = <<>> THEN <<>>
  ELSE IF FirstReadable_last(Tail(candidateUris)) # <<>>
  THEN FirstReadable_last(Tail(candidateUris))
  ELSE IF Head(candidateUris) \in DOMAIN Files THEN <<Head(candidateUris)>>
  ELSE <<>>

\* the first candidate that can be read, if any
RECURSIVE FirstReadable(_)
FirstReadable(candidateUris) ==
  IF candidateUris = <<>> THEN <<>>
  ELSE IF Head(candidateUris) \in DOMAIN Files THEN <<Head(candidateUris)>>
  ELSE FirstReadable(Tail(candidateUris))

\* resolvePreloadChunks(entries, document)
RECURSIVE resolvePreloadChunks(_, _)
resolvePreloadChunks(entries, doc) ==
  IF entries = <<>> THEN [chunks |-> <<>>, missing |-> <<>>]
  ELSE
    LET entry == Trim(Head(entries))
        rest  == resolvePreloadChunks(Tail(entries), doc)
        docFolder == IF doc.scheme = "file" THEN <<dirname(doc.fsPath)>> ELSE <<>>
        candidateUris ==
          IF isAbsolute(entry) THEN <<entry>>
          ELSE [i \in 1..Len(docFolder) |-> join(docFolder[i], entry)]
                 \o [i \in 1..Len(workspaceFolders) |->
                       join(workspaceFolders[i], entry)]
        resolvedUri == FirstReadable(candidateUris)
    IN  IF entry = <<>> THEN rest
        ELSE IF resolvedUri = <<>>
        THEN [rest EXCEPT !.missing = <<entry>> \o @]
        ELSE [rest EXCEPT !.chunks =
                <<Chunk(Files[resolvedUri[1]], resolvedUri[1])>> \o @]

\* missing.join(', ')
RECURSIVE JoinComma(_)
JoinComma(ts) ==
  IF ts = <<>> THEN <<>>
  ELSE IF Len(ts) = 1 THEN ts[1]
  ELSE ts[1] \o <<",", " ">> \o JoinComma(Tail(ts))

\* `[${document.fileName}]`
Header(doc) == <<"[">> \o doc.fileName \o <<"]">>

MissingText == <<" ", "M", "i", "s", "s", "i", "n", "g", " ", "p", "r", "e", "l", "o", "a", "d", " ", "s", "c", "r", "i", "p", "t", "s", ":", " ">>
OutputText == <<" ", "O", "u", "t", "p", "u", "t", " ", "(">>
ErrorsText == <<" ", "E", "r", "r", "o", "r", "s", " ", "(">>

\* logResult(document, result, { mode, showOutputOnSuccess }): the lines it
\* appends to the channel and the messages it shows
logResult(doc, res, simulationMode, showOutput) ==
  LET header   == Header(doc)
      duration == Digits(res.durationMs) \o <<"m", "s">>
      outLines ==
        IF Len(res.output) > 0
        THEN <<header \o OutputText \o duration \o <<")", ":">>>>
               \o [i \in 1..Len(res.output) |-> <<" ", " ">> \o res.output[i]]
        ELSE <<>>
      errLine(e) ==
        <<<<" ", " ", "[">> \o e.chunkName \o <<"]", " ">> \o e.message>>
          \o (IF e.stack # <<>> THEN <<<<" ", " ", " ", " ">> \o e.stack>>
              ELSE <<>>)
      errLines[k \in 0..Len(res.errors)] ==
        IF k = 0 THEN <<>> ELSE errLines[k - 1] \o errLine(res.errors[k])
  IN  IF ~res.success
      THEN [lines |-> outLines
                        \o <<header \o ErrorsText \o duration \o <<")", ":">>>>
                        \o errLines[Len(res.errors)],
            notices |-> <<"showErrorMessage", "show">>]
      ELSE IF simulationMode = "single"
      THEN [lines |-> outLines,
            notices |-> <<"setStatusBarMessage">>
                          \o (IF showOutput /\ Len(res.output) > 0
                              THEN <<"show">> ELSE <<>>)]
      ELSE [lines |-> outLines, notices |-> <<>>]

\* the message of the TypeError to_jsstring throws when handed null
TypeErrorText == <<"t", "o", "_", "j", "s", "s", "t", "r", "i", "n", "g", " ", "e", "x", "p", "e", "c", "t", "s", " ", "a", " ", "U", "i", "n", "t", "8", "A", "r", "r", "a", "y">>
\* the message of an exception the host raised
HostErrorText == <<"h", "o", "s", "t">>

\* simulateDocument, up to its await: the settings are read
simulateDocument(doc, simulationMode) ==
  /\ epc' = "resolving"
  /\ document' = doc
  /\ mode' = simulationMode
  /\ preloads' = <<>>
  /\ missing' = <<>>
  /\ channel' = <<>>
  /\ notices' = <<>>
  /\ simResult' = <<>>

\* vscode.workspace.onDidSaveTextDocument(async (doc) => {...})
OnDidSaveTextDocument(doc) ==
  /\ epc = "ready"
  /\ LET start == isLuauDocument(doc) /\ runOnSave(settings)
     IN  /\ lastEvent' = [kind |-> "save", document |-> doc, started |-> start,
                          before |-> diagnostics[getChunkName(doc)]]
         /\ IF start THEN simulateDocument(doc, "save")
            ELSE UNCHANGED <<epc, document, mode, preloads, missing, channel,
                             notices, simResult>>
  /\ UNCHANGED <<settings, diagnostics, rvars, tvars, callTime>>

\* the command rs-code-simulator.runCurrentFile, with the active editor's
\* document (NoDoc when there is no active editor)
RunCurrentFile(doc) ==
  /\ epc = "ready"
  /\ LET start == doc # NoDoc /\ isLuauDocument(doc)
     IN  /\ lastEvent' = [kind |-> "command", document |-> doc, started |-> start,
                          before |-> IF doc = NoDoc THEN <<>>
                                     ELSE diagnostics[getChunkName(doc)]]
         /\ IF start THEN simulateDocument(doc, "single")
            ELSE /\ notices' = <<"showWarningMessage">>
                 /\ channel' = <<>>
                 /\ UNCHANGED <<epc, document, mode, preloads, missing,
                                simResult>>
  /\ UNCHANGED <<settings, diagnostics, rvars, tvars, callTime>>

\* simulateDocument after its await: the preloads are resolved, the missing
\* ones reported, the chunk built and simulator.run entered
Resolved ==
  /\ epc = "resolving"
  /\ LET r == resolvePreloadChunks(settings.preloadScripts, document)
         chunk == Chunk(document.code, getChunkName(document))
     IN  /\ preloads' = r.chunks
         /\ missing' = r.missing
         /\ channel' = IF Len(r.missing) > 0
                       THEN <<Header(document) \o MissingText
                                \o JoinComma(r.missing)>>
                       ELSE <<>>
         /\ notices' = IF Len(r.missing) > 0 /\ mode = "single"
                       THEN <<"showWarningMessage">> ELSE <<>>
         /\ options' = Options(chunk, NoChunk, r.chunks, "undefined")
  /\ epc' = "running"
  /\ pc' = "newstate"
  /\ prev' = <<>>
  /\ lstate' = "none"
  /\ closeCount' = 0
  /\ idx' = 1
  /\ completion' = "none"
  /\ result' = <<>>
  /\ trace' = <<>>
  /\ callTime' = now
  /\ UNCHANGED <<globals, stackDepth, output, errors, runStart, now, origin,
                 errorOrigin, tvars, document, mode, settings, diagnostics,
                 simResult, lastEvent>>

\* a catch clause that swallows the exception and reports a clean run
Caught_swallowed(chunkName) ==
  [success |-> TRUE, durationMs |-> 0, errors |-> <<>>, output |-> <<>>]

\* catch (error) { result = { success: false, durationMs: 0, errors: [...],
\*                            output: [] } }
Caught(chunkName) ==
  [success |-> FALSE, durationMs |-> 0,
   errors |-> <<Diagnostic(IF completion = "throw" THEN TypeErrorText
                           ELSE HostErrorText, chunkName, <<>>, <<>>)>>,
   output |-> <<>>]

\* simulator.run has returned or thrown: applyDiagnostics, logResult, return
Simulated ==
  /\ epc = "running"
  /\ pc \in {"returned", "thrown"}
  /\ LET res == IF pc = "returned" THEN result[1]
                ELSE Caught(getChunkName(document))
         log == logResult(document, res, mode,
                          showOutputOnSuccess(settings, mode))
     IN  /\ simResult' = <<res>>
         /\ diagnostics' =
              [diagnostics EXCEPT ![getChunkName(document)] =
                 applyDiagnostics(document, res, settings.platform)]
         /\ channel' = channel \o log.lines
         /\ notices' = notices \o log.notices
  /\ epc' = "ready"
  \* the call of run is over and its locals are gone
  /\ pc' = "idle"
  /\ options' = NoOptions
  /\ lstate' = "none"
  /\ closeCount' = 0
  /\ globals' = FreshGlobals
  /\ stackDepth' = 0
  /\ output' = <<>>
  /\ errors' = <<>>
  /\ runStart' = 0
  /\ idx' = 1
  /\ completion' = "none"
  /\ result' = <<>>
  /\ trace' = <<>>
  /\ origin' = <<>>
  /\ errorOrigin' = <<>>
  /\ callTime' = 0
  /\ prev' = <<[returned |-> pc = "returned",
                result |-> [i \in 1..Len(result) |->
                              [success |-> result[i].success,
                               errors |-> result[i].errors,
                               output |-> result[i].output]]]>>
  /\ UNCHANGED <<document, mode, settings, preloads, missing, lastEvent, now,
                 tvars>>

EInit ==
  /\ RInit
  /\ rawMessage = <<>>
  /\ fallbackChunk = <<>>
  /\ translated = <<>>
  /\ \E st \in SettingsSet : EIdle(st)

ENext ==
  \/ \E doc \in EditorDocs : OnDidSaveTextDocument(doc)
  \/ \E doc \in EditorDocs \cup {NoDoc} : RunCurrentFile(doc)
  \/ Resolved
  \/ NewState(BOOLEAN)
  \/ OpenLibs(BOOLEAN)
  \/ RegisterPrint(BOOLEAN)
  \/ RegisterWarn(BOOLEAN)
  \/ StartTimer
  \/ InitializePrelude
  \/ Bootstrap
  \/ Preload
  \/ Target
  \/ Finally
  \/ Simulated

\* the extension in the editor: save events and the run-current-file command;
\* a call into the host inside run may fail
SpecEditor == EInit /\ [][ENext]_vars

PInit ==
  /\ RInit
  /\ rawMessage = <<>>
  /\ fallbackChunk = <<>>
  /\ translated = <<>>
  /\ \E st \in ResolveSettings : EIdle(st)

PNext ==
  \/ \E doc \in ResolveDocs : RunCurrentFile(doc)
  \/ Resolved
  \/ NewState({FALSE})
  \/ OpenLibs({FALSE})
  \/ RegisterPrint({FALSE})
  \/ RegisterWarn({FALSE})
  \/ StartTimer
  \/ InitializePrelude
  \/ Bootstrap
  \/ Preload
  \/ Target
  \/ Finally
  \/ Simulated

\* the run-current-file command under every list of preload entries
SpecPreloads == PInit /\ [][PNext]_vars

(***************************************************************************)
(* The translator on its own: every raw text up to MaxLen characters over  *)
(* an alphabet that holds each character class of the pattern, and texts   *)
(* composed in the two shapes.                                             *)
(***************************************************************************)
Alphabet == {"a", ":", "1", " ", "\n", "@"}

RECURSIVE TextsUpTo(_)
TextsUpTo(n) ==
  IF n = 0 THEN {<<>>}
  ELSE LET shorter == TextsUpTo(n - 1)
       IN  shorter \cup {Append(s, c) : s \in {t \in shorter : Len(t) = n - 1},
                                       c \in Alphabet}

Idents ==
  {<<"X">>, <<"@", "X">>, <<"a", ".", "b">>, <<"C", ":", "a">>,
   <<"[", "x", "]">>, <<" ", "X">>, <<"a", "\n", "b">>,
   StringShapeOpen \o <<"Y", "\"", "]">>}

LineTexts == {<<"3">>, <<"1", "2">>, <<"0", "7">>}

Messages == {<<>>, <<"b", "o", "o", "m">>, <<" ", "n", "i", "l", " ">>,
             <<"a", ":", "1", ":", " ", "b">>, <<"m", "\n", "s", "t">>}

\* [string "X"]:N: M
QuotedShape(x, n, m) ==
  StringShapeOpen \o x \o <<"\"", "]", ":">> \o n \o <<":", " ">> \o m

\* D:N: M
DirectShape(d, n, m) == d \o <<":">> \o n \o <<":", " ">> \o m

ShapedTexts ==
  {QuotedShape(x, n, m) : x \in Idents, n \in LineTexts, m \in Messages}
    \cup {DirectShape(d, n, m) : d \in Idents, n \in LineTexts, m \in Messages}

Fallbacks == {<<"f">>, <<"@", "p">>}

TInit ==
  /\ RInit
  /\ EIdle(Settings("absent", <<>>, "absent", "posix"))
  /\ rawMessage \in TextsUpTo(MaxLen) \cup ShapedTexts
  /\ fallbackChunk \in Fallbacks
  /\ translated = <<>>

Translate ==
  /\ translated = <<>>
  /\ translated' = <<extractErrors(rawMessage, fallbackChunk)>>
  /\ UNCHANGED <<rawMessage, fallbackChunk, rvars, evars, callTime>>

TNext == Translate

SpecTranslate == TInit /\ [][TNext]_vars

(***************************************************************************)
(* Properties of run.                                                      *)
(***************************************************************************)
\* the transcript, the Diagnostics and the trace are those of the current call
InTry ==
  \/ pc \in {"prelude", "bootstrap", "preloads", "target", "finally", "returned"}
  \/ pc = "thrown" /\ completion = "throw"

IsStage(e) == e.kind \in {"env", "bootstrap", "preload", "target"}

\* the stages begun so far, in order
Stages == SelectSeq(trace, IsStage)

\* the place of a stage in the pipeline
Rank(st) ==
  CASE st.kind = "env" -> 0
    [] st.kind = "bootstrap" -> 1
    [] st.kind = "preload" -> 1 + st.index
    [] st.kind = "target" -> 2 + Len(options.preloads)

\* C1: short-circuit. Whenever a stage has yielded a Diagnostic, that stage is
\* the last one begun (no later stage is compiled or executed), every
\* Diagnostic comes from it, and no transcript line comes from a later stage.
C1_ShortCircuit ==
  InTry =>
    \A k \in 1..Len(errors) :
      /\ Stages # <<>>
      /\ Stages[Len(Stages)] = errorOrigin[k]
      /\ \A j \in 1..Len(origin) : Rank(origin[j]) <= Rank(errorOrigin[k])

\* preload 2 of 3 failed after preload 1 wrote to the transcript, and the call
\* returned
C1_Witness ==
  /\ pc = "returned"
  /\ Len(options.preloads) = 3
  /\ errorOrigin = <<Stage("preload", 2, <<"q">>)>>
  /\ Len(output) = 2
  /\ Stages[Len(Stages)].kind = "preload"

\* C2: run never propagates an exception: no call of run ends by throwing.
C2_NeverThrows == pc # "thrown"

\* C3: an interpreter that was created has been released exactly once when
\* control leaves run, however it leaves.
C3_ReleasedExactlyOnce ==
  (pc \in {"returned", "thrown"} /\ lstate # "none") => closeCount = 1

FaultFreeCodes ==
  {"print2", "warnret", "noargs", "readset", "printret", "time", "tostringok"}

\* no supplied chunk has a compile or runtime fault and the setup succeeds
FaultFree(o) ==
  /\ o.stubbedServices = "undefined"
  /\ o.chunk.code \in FaultFreeCodes
  /\ o.prelude # NoChunk => o.prelude.code \in FaultFreeCodes
  /\ \A i \in 1..Len(o.preloads) : o.preloads[i].code \in FaultFreeCodes

\* C4: in every returned Result, success holds exactly when errors holds no
\* Diagnostic of severity error; a failed Result carries one; a fault-free run
\* returns success with no errors.
C4_SuccessIffNoError ==
  result # <<>> =>
    LET r == result[1]
    IN  /\ r.success <=>
             (\A k \in 1..Len(r.errors) : r.errors[k].severity # "error")
        /\ ~r.success =>
             (\E k \in 1..Len(r.errors) : r.errors[k].severity = "error")
        /\ FaultFree(options) => r.success /\ r.errors = <<>>

\* the target chunk, reached after every earlier stage succeeded, failed
C4_Witness ==
  /\ pc = "returned"
  /\ ~result[1].success
  /\ Len(result[1].errors) = 1
  /\ errorOrigin[1].kind = "target"
  /\ Len(options.preloads) > 0

\* the steps of a call in which no stage fails
ExpectedTrace(o) ==
  <<Stage("hook", 1, <<>>), Stage("hook", 2, <<>>),
    Stage("env", 0, PreludeChunkName)>>
    \o (IF o.prelude = NoChunk THEN <<>>
        ELSE <<Stage("bootstrap", 0, o.prelude.chunkName)>>)
    \o [i \in 1..Len(o.preloads) |-> Stage("preload", i, o.preloads[i].chunkName)]
    \o <<Stage("target", 0, o.chunk.chunkName), Stage("close", 0, <<>>)>>

\* C5: stage order. A call in which no stage fails installs both hooks, then
\* runs the environment chunk, the bootstrap chunk if supplied, each preload in
\* the supplied order and the target, each exactly once; and in no call is a
\* step taken twice.
C5_StageOrder ==
  /\ (pc = "returned" /\ result[1].success) => trace = ExpectedTrace(options)
  /\ \A i, j \in 1..Len(trace) : i < j => trace[i] # trace[j]

\* a successful call with a bootstrap chunk and three preloads
C5_Witness ==
  /\ pc = "returned"
  /\ result[1].success
  /\ options.prelude # NoChunk
  /\ Len(options.preloads) = 3
  /\ Len(trace) = 9

\* the line at which a chunk's code raises a runtime fault, 0 if it raises none
\* with a position
RuntimeFaultLine(code) ==
  CASE code \in {"nilindex", "printboom"} -> 2
    [] OTHER -> 0

\* C6: a target chunk, whatever its chunkName, that raises a runtime fault at
\* line L after all earlier stages succeeded: the Result has success = false and
\* its first Diagnostic has severity error, line L and a chunkName that contains
\* the target's chunkName.
C6_FaultLineAndName ==
  (/\ pc = "returned"
   /\ Stages[Len(Stages)].kind = "target"
   /\ RuntimeFaultLine(options.chunk.code) > 0)
    => /\ ~result[1].success
       /\ Len(result[1].errors) >= 1
       /\ result[1].errors[1].severity = "error"
       /\ result[1].errors[1].line = <<RuntimeFaultLine(options.chunk.code)>>
       /\ Includes(result[1].errors[1].chunkName, options.chunk.chunkName)

\* the chunk a stage ran
StageChunk(st) ==
  CASE st.kind = "env" -> Chunk(buildPrelude(options.stubbedServices), PreludeChunkName)
    [] st.kind = "bootstrap" -> options.prelude
    [] st.kind = "preload" -> options.preloads[st.index]
    [] st.kind = "target" -> options.chunk

Exactly(text) == [any |-> FALSE, text |-> text]
\* the decimal text of some reading of the clock
ClockText == [any |-> TRUE, text |-> <<>>]

\* The lines each program's logging calls are to leave, written out: the
\* prefix, then the display strings of the arguments joined by tabs. gset tells
\* whether the global g was assigned earlier in the call.
ExpectedLines(code, gset) ==
  CASE code = "print2" -> <<Exactly(<<"a", "\t", "b">>)>>
    [] code = "warnret" ->
         <<Exactly(<<"[", "w", "a", "r", "n", "]", " ", "w", "\t", "7">>)>>
    [] code = "noargs" -> <<Exactly(<<>>)>>
    [] code = "printboom" -> <<Exactly(<<"p">>)>>
    [] code = "errtable" -> <<Exactly(<<"e">>)>>
    [] code = "readset" ->
         IF gset THEN <<Exactly(<<"1">>)>> ELSE <<Exactly(<<"n", "i", "l">>)>>
    [] code = "printret" -> <<Exactly(<<"a">>), Exactly(<<"n", "i", "l">>)>>
    [] code = "time" -> <<ClockText>>
    [] code = "tostringok" ->
         <<Exactly(<<"a", "\t", "o", "b", "j">>), Exactly(<<"z">>)>>
    [] OTHER -> <<>>

\* the lines the stages sts are to leave, in order
RECURSIVE ExpectedTranscript(_, _)
ExpectedTranscript(sts, gset) ==
  IF sts = <<>> THEN <<>>
  ELSE LET code == StageChunk(Head(sts)).code
       IN  ExpectedLines(code, gset)
             \o ExpectedTranscript(Tail(sts), gset \/ code = "readset")

LineIs(expected, line) ==
  IF expected.any THEN \E t \in 0..now : line = Digits(t)
  ELSE line = expected.text

\* C7: each call of a logging hook appends exactly one line, the hook's prefix
\* followed by the display strings of its arguments joined by tabs, and returns
\* no values; the lines stand in the transcript in the order of the calls,
\* across all stages.
C7_LoggingLines ==
  InTry
    => LET expected == ExpectedTranscript(Stages, FALSE)
       IN  /\ Len(output) = Len(expected)
           /\ \A i \in 1..Len(output) : LineIs(expected[i], output[i])
           /\ \A i, j \in 1..Len(origin) : i < j => Rank(origin[i]) <= Rank(origin[j])

\* warn("w", 7) ran in the target after the bootstrap chunk and two preloads
\* each called print
C7_Witness ==
  /\ pc = "returned"
  /\ options.chunk.code = "warnret"
  /\ options.prelude.code = "print2"
  /\ Len(options.preloads) = 2
  /\ Len(output) = 4
  /\ output[1] = <<"a", "\t", "b">>
  /\ output[4] = <<"[", "w", "a", "r", "n", "]", " ", "w", "\t", "7">>

(***************************************************************************)
(* Properties of extractErrors.                                            *)
(***************************************************************************)
Has(s, c) == \E i \in 1..Len(s) : s[i] = c

\* the number a line text of LineTexts writes
NumberOf(n) ==
  CASE n = <<"3">> -> 3
    [] n = <<"1", "2">> -> 12
    [] n = <<"0", "7">> -> 7

\* the message the translator is to report for the remainder m
MessageOf(m) == IF Trim(m) = <<>> THEN RuntimeErrorText ELSE Trim(m)

\* the one Diagnostic the translator returned
Translated == translated[1][1]

Parsed(ident, n, m) ==
  /\ Translated.chunkName = ident
  /\ Translated.line = <<NumberOf(n)>>
  /\ Translated.message = MessageOf(m)

GenericOnBlank ==
  Trim(rawMessage) = <<>> =>
    /\ Len(translated[1]) = 1
    /\ Translated.message = UnknownErrorText
    /\ Translated.chunkName = fallbackChunk
    /\ Translated.line = <<>>

LooksQuoted(d) ==
  /\ StartsWith(d, StringShapeOpen)
  /\ Len(d) >= Len(StringShapeOpen) + 3
  /\ SubSeq(d, Len(d) - 1, Len(d)) = <<"\"", "]">>
  /\ ~Has(SubSeq(d, Len(StringShapeOpen) + 1, Len(d) - 2), "\"")

GoodQuoted(x) ==
  x # <<>> /\ ~Has(x, "\"") /\ ~Has(x, "\n") /\ Head(x) # "@"

GoodDirect(d) ==
  /\ d # <<>>
  /\ ~Has(d, ":")
  /\ ~Has(d, "\n")
  /\ Head(d) # "@"
  /\ ~IsSpace(Head(d))
  /\ ~LooksQuoted(d)

FirstBreak(t) ==
  IF Has(t, "\n")
  THEN CHOOSE k \in 1..Len(t) : t[k] = "\n" /\ \A j \in 1..(k - 1) : t[j] # "\n"
  ELSE 0

HeadlineOf(t) == IF FirstBreak(t) = 0 THEN t ELSE SubSeq(t, 1, FirstBreak(t) - 1)

RestOf(t) == IF FirstBreak(t) = 0 THEN <<>> ELSE From(t, FirstBreak(t) + 1)

\* h is an identity, a colon, digits, a colon and a remainder, the identity
\* being free of colons or of the form [string "X"]
MatchesShape(h) ==
  \E i \in 2..Len(h), k \in 1..Len(h) :
    /\ i + k + 1 <= Len(h)
    /\ h[i] = ":"
    /\ \A j \in (i + 1)..(i + k) : IsDigit(h[j])
    /\ h[i + k + 1] = ":"
    /\ \/ ~Has(SubSeq(h, 1, i - 1), ":")
       \/ LooksQuoted(SubSeq(h, 1, i - 1))

\* C9: the translator returns exactly one Diagnostic of severity error for
\* every text; when the headline matches neither shape its message is the
\* headline verbatim, its chunkName the fallback identity, its line absent and
\* its stack the remaining lines.
C9_OneDiagnosticAndFallback ==
  translated # <<>> =>
    /\ Len(translated[1]) = 1
    /\ Translated.severity = "error"
    /\ (Trim(rawMessage) # <<>> /\ ~MatchesShape(HeadlineOf(Trim(rawMessage))))
         => /\ Translated.message = HeadlineOf(Trim(rawMessage))
            /\ Translated.chunkName = fallbackChunk
            /\ Translated.line = <<>>
            /\ Translated.stack = RestOf(Trim(rawMessage))

\* a text of two lines whose headline has neither shape was translated
C9_Witness ==
  /\ translated # <<>>
  /\ rawMessage = <<"a", ":", "\n", "1">>
  /\ Translated.message = <<"a", ":">>
  /\ Translated.stack = <<"1">>

(***************************************************************************)
(* Isolation of calls.                                                     *)
(***************************************************************************)
SameResult(a, b) ==
  a.success = b.success /\ a.errors = b.errors /\ a.output = b.output

\* C10 as claimed: a call that returns after a call with the same Options
\* returned has the same success, errors and output.
C10_IdenticalResults ==
  (pc = "returned" /\ prev # <<>> /\ prev[1].returned)
    => SameResult(prev[1].result[1], result[1])

\* some chunk of the call reads the clock
ReadsClock(o) ==
  \/ o.chunk.code = "time"
  \/ o.prelude.code = "time"
  \/ \E i \in 1..Len(o.preloads) : o.preloads[i].code = "time"

\* C10 as amended: the same, for Options none of whose chunks reads the clock.
C10_IdenticalResultsNoClock ==
  (pc = "returned" /\ prev # <<>> /\ prev[1].returned /\ ~ReadsClock(options))
    => SameResult(prev[1].result[1], result[1])

\* a chunk that prints the global g and then assigns it ran in two calls in a
\* row, and the second call printed nil again
C10_Witness ==
  /\ pc = "returned"
  /\ prev # <<>>
  /\ prev[1].returned
  /\ options.chunk.code = "readset"
  /\ options.preloads = <<>>
  /\ globals["g"] = LuaNum(1)
  /\ result[1].output = <<<<"n", "i", "l">>>>

(***************************************************************************)
(* Failure handling of run.                                                *)
(***************************************************************************)
\* the lines the transcript is to hold, as texts (no program of a failing
\* pipeline reads the clock)
ExpectedTexts(sts) ==
  LET expected == ExpectedTranscript(sts, FALSE)
  IN  [i \in 1..Len(expected) |-> expected[i].text]

\* C11: captured output survives failure. A Result returned after a stage
\* failed has success = false, and its output is exactly the lines emitted, in
\* emission order, by the stages that ran up to the failure, the lines the
\* failing chunk emitted before it faulted included: none dropped, none added.
C11_OutputSurvivesFailure ==
  (pc = "returned" /\ errors # <<>>)
    => /\ ~result[1].success
       /\ \A i \in 1..Len(Stages) : StageChunk(Stages[i]).code # "time"
       /\ result[1].output = ExpectedTexts(Stages)
       /\ Len(origin) = Len(result[1].output)

\* the second preload printed and then failed, after the bootstrap chunk and
\* the first preload had printed; all three lines are in the Result
C11_Witness ==
  /\ pc = "returned"
  /\ ~result[1].success
  /\ errorOrigin = <<Stage("preload", 2, <<"q">>)>>
  /\ result[1].output = <<<<"a", "\t", "b">>, <<"n", "i", "l">>, <<"p">>>>
  /\ origin[3] = Stage("preload", 2, <<"q">>)

\* the identity a setup failure is reported under
SetupIdentity == <<"r", "o", "b", "l", "o", "x", "-", "p", "r", "e", "l", "u", "d", "e">>

\* C12: a failure of the synthesized environment chunk leaves exactly one
\* Diagnostic, whose chunkName is one fixed synthetic identity; and no failure of
\* a user-supplied chunk (bootstrap, preload or target, whatever its name) is
\* reported under that identity.
C12_SyntheticIdentity ==
  (InTry /\ errors # <<>>)
    => IF errorOrigin[1].kind = "env"
       THEN Len(errors) = 1 /\ errors[1].chunkName = SetupIdentity
       ELSE \A k \in 1..Len(errors) : errors[k].chunkName # SetupIdentity

\* the programs that raise an error value that is not text
NonTextErrorCodes == {"errtable", "errnil"}

\* C13: when the chunk of a stage fails with an error value that is not text (a
\* table, nil), the call still returns a Result, with exactly one Diagnostic, of
\* severity error, for that stage.
C13_NonTextErrorValue ==
  (/\ pc \in {"finally", "returned", "thrown"}
   /\ completion # "none"
   /\ Stages # <<>>
   /\ StageChunk(Stages[Len(Stages)]).code \in NonTextErrorCodes)
    => /\ completion = "return"
       /\ Len(errors) = 1
       /\ errors[1].severity = "error"
       /\ errorOrigin[1] = Stages[Len(Stages)]

\* C15: returned values are discarded. The value stack of a fresh interpreter
\* is empty, and every stage that compiles and executes successfully leaves it
\* as deep as it found it, whatever number of values its chunk returns: so
\* while no stage has failed, the stack is empty.
C15_ReturnedValuesDiscarded ==
  (InTry /\ errors = <<>> /\ completion # "throw") => stackDepth = 0

\* the programs that do not compile
UncompilableCodes == {"syntax", "envsyntax"}

\* C16: two-phase load-then-call. A stage whose chunk does not compile yields
\* exactly one Diagnostic, is the last stage begun, and its code is never
\* executed: no transcript line comes from it.
C16_LoadThenCall ==
  InTry =>
    \A i \in 1..Len(Stages) :
      StageChunk(Stages[i]).code \in UncompilableCodes
        => /\ i = Len(Stages)
           /\ errorOrigin = <<Stages[i]>>
           /\ Len(errors) = 1
           /\ \A j \in 1..Len(origin) : origin[j] # Stages[i]
           /\ completion # "throw"

\* the bootstrap chunk, whose first statement is a print, did not compile: one
\* Diagnostic for it and an empty transcript
C16_Witness ==
  /\ pc = "returned"
  /\ options.prelude.code = "syntax"
  /\ errorOrigin = <<Stage("bootstrap", 0, <<"b">>)>>
  /\ Len(result[1].errors) = 1
  /\ result[1].output = <<>>

\* C17: the '@' sigil never leaks. No Diagnostic of a Result that run returns
\* has a chunkName that begins with '@', whichever stage failed and whether its
\* message matched a known shape or took the fallback path.
C17_NoSigilLeak ==
  result # <<>> =>
    \A k \in 1..Len(result[1].errors) :
      ~StartsWith(result[1].errors[k].chunkName, <<"@">>)

\* the programs that hand a logging hook a value whose string conversion runs
\* a __tostring function of the script, and then call print once more
ToStringCodes == {"tostringok", "tostringfault", "tostringnil"}

\* how many transcript lines come from stage st
LinesFrom(st) == Len(SelectSeq(origin, LAMBDA o : o = st))

\* C18: a logging hook never raises into the calling script. Whatever a
\* script-defined __tostring does (return a string, fault, return a
\* non-string), each call of print or warn completes and appends one line and
\* the chunk goes on: a chunk that calls the hooks twice leaves two lines and
\* no Diagnostic.
C18_HookNeverRaises ==
  InTry =>
    \A i \in 1..Len(Stages) :
      StageChunk(Stages[i]).code \in ToStringCodes
        => /\ LinesFrom(Stages[i]) = 2
           /\ \A k \in 1..Len(errorOrigin) : errorOrigin[k] # Stages[i]

\* C19: the duration measurement brackets the whole run. The start timestamp
\* is the clock's reading when run is entered, before the interpreter is
\* created and the library and hooks are installed, so durationMs is the time
\* from the entry of run to the building of the Result.
C19_DurationBracketsRun ==
  /\ InTry => runStart = callTime
  /\ (pc = "finally" /\ completion = "return")
       => callTime + result[1].durationMs <= now

(***************************************************************************)
(* Properties of the extension.                                            *)
(***************************************************************************)
\* the saved document is a Lua or Luau document and the user has turned
\* runOnSave on
SaveShouldRun(doc) ==
  /\ doc.languageId \in {LuaId, LuauId}
  /\ settings.runOnSave = "true"

\* C14: auto-run on save is opt-in. A document-saved event starts a simulation
\* if and only if the document's language is lua or luau and runOnSave is true
\* for it; otherwise (the setting absent or false, or another language) the
\* event starts none and leaves the document's diagnostics as they were.
C14_RunOnSaveOptIn ==
  lastEvent.kind = "save"
    => LET doc == lastEvent.document
       IN  /\ lastEvent.started <=> SaveShouldRun(doc)
           /\ SaveShouldRun(doc)
                => /\ document = doc
                   /\ mode = "save"
                   /\ epc # "ready" \/ simResult # <<>>
           /\ ~SaveShouldRun(doc)
                => /\ epc = "ready"
                   /\ diagnostics[getChunkName(doc)] = lastEvent.before

\* a document that has a diagnostic from an earlier run of the command is
\* saved with runOnSave absent: nothing runs and the diagnostic stays
C14_Witness ==
  /\ lastEvent.kind = "save"
  /\ settings.runOnSave = "absent"
  /\ isLuauDocument(lastEvent.document)
  /\ ~lastEvent.started
  /\ epc = "ready"
  /\ lastEvent.before # <<>>
  /\ diagnostics[getChunkName(lastEvent.document)] = lastEvent.before

\* the programs that fail to compile or to run
FailingCodes ==
  {"nilindex", "printboom", "syntax", "errtable", "errnil", "errlevel0",
   "tostringfault", "tostringnil"}

\* the document's own chunk is reached (no preload fails) and fails
OwnChunkFails ==
  /\ document.code \in FailingCodes
  /\ \A i \in 1..Len(preloads) : preloads[i].code \notin FailingCodes

\* C20: when simulateDocument has finished for a document, the document's
\* editor diagnostics are one entry per error of the Result whose chunkName
\* path-equals the document's chunk name, in order, each on a line of the
\* document (the error's line less one when that is one); whenever the
\* document's own chunk failed to compile or run there is at least one entry,
\* and after a successful run there is none.
C20_DiagnosticsMatchResult ==
  (epc = "ready" /\ simResult # <<>>)
    => LET name == getChunkName(document)
           res == simResult[1]
           shown == diagnostics[name]
           rel == SelectSeq(res.errors,
                            LAMBDA e : equalsPath(e.chunkName, name,
                                                  settings.platform))
       IN  /\ Len(shown) = Len(rel)
           /\ \A i \in 1..Len(shown) :
                /\ shown[i].message = rel[i].message
                /\ shown[i].line \in 0..(lineCount(document) - 1)
                /\ (rel[i].line # <<>> /\ rel[i].line[1] \in 1..lineCount(document))
                     => shown[i].line = rel[i].line[1] - 1
           /\ OwnChunkFails => Len(shown) >= 1
           /\ res.success => shown = <<>>

\* the messages of the exceptions run can throw
ExceptionMessages == {TypeErrorText, HostErrorText}

\* C21: simulateDocument always completes with a well-formed Result. When
\* simulator.run threw, the Result is success = false, durationMs = 0, no
\* output and exactly one error, of severity error, with the exception's
\* message and the document's chunk name; and diagnostics and logging are
\* applied to it as to a returned one: the document gets one diagnostic, on its
\* first line, with that message, and the channel gets the error lines.
C21_ThrowBecomesResult ==
  /\ (epc = "ready" /\ lastEvent.started) => simResult # <<>>
  /\ (epc = "ready" /\ lastEvent.started)
       => LET name == getChunkName(document)
              res == simResult[1]
              log == logResult(document, res, mode,
                               showOutputOnSuccess(settings, mode))
          IN  /\ prev # <<>>
              /\ prev[1].returned
                   => /\ res.success = prev[1].result[1].success
                      /\ res.errors = prev[1].result[1].errors
                      /\ res.output = prev[1].result[1].output
              /\ ~prev[1].returned
                   => /\ ~res.success
                      /\ res.durationMs = 0
                      /\ res.output = <<>>
                      /\ Len(res.errors) = 1
                      /\ res.errors[1].severity = "error"
                      /\ res.errors[1].chunkName = name
                      /\ res.errors[1].message \in ExceptionMessages
                      /\ diagnostics[name] =
                           <<[line |-> 0, message |-> res.errors[1].message,
                              severity |-> "Error"]>>
                      /\ channel[Len(channel)] =
                           <<" ", " ", "[">> \o name \o <<"]", " ">>
                             \o res.errors[1].message
                      /\ notices[Len(notices)] = "show"
              /\ diagnostics[name] = applyDiagnostics(document, res,
                                                      settings.platform)
              /\ Len(channel) >= Len(log.lines)
              /\ SubSeq(channel, Len(channel) - Len(log.lines) + 1,
                        Len(channel)) = log.lines

\* run threw on an error value that is not text, after a preload had printed:
\* the document has its one diagnostic and the channel its error lines
C21_Witness ==
  /\ epc = "ready"
  /\ lastEvent.started
  /\ simResult # <<>>
  /\ ~prev[1].returned
  /\ document.code = "errtable"
  /\ Len(preloads) = 1
  /\ simResult[1].errors[1].message = TypeErrorText
  /\ Len(diagnostics[getChunkName(document)]) = 1
  /\ Len(channel) = 3

(***************************************************************************)
(* C22: preload resolution                                                 *)
(***************************************************************************)

C22_NonBlank(rawEntry) == Trim(rawEntry) # <<>>

\* the configured entries that are not blank, trimmed, in configured order
C22_Entries ==
  LET kept == SelectSeq(settings.preloadScripts, C22_NonBlank)
  IN  [i \in 1..Len(kept) |-> Trim(kept[i])]

\* where an entry is to be found for the current document, written out by
\* hand from the files that exist: /w/p /s/p /w/r /v/r /v/x /q, with the
\* workspace folders /w and /v; <<>> when it is nowhere
C22_Place(entry) ==
  CASE entry = <<"/", "q">> -> <<<<"/", "q">>>>
    [] entry = <<"p">> ->
         IF document.scheme = "file" /\ document.fsPath = <<"/", "s", "/", "t">>
         THEN <<<<"/", "s", "/", "p">>>>
         ELSE <<<<"/", "w", "/", "p">>>>
    [] entry = <<"r">> -> <<<<"/", "w", "/", "r">>>>
    [] entry = <<"x">> -> <<<<"/", "v", "/", "x">>>>
    [] OTHER -> <<>>

\* how many of the first i entries are found (found = TRUE) or not
C22_Count(i, found) ==
  Cardinality({j \in 1..i : (C22_Place(C22_Entries[j]) # <<>>) = found})

\* the preload stages the interpreter has begun, in order
C22_IsPreloadStage(e) == e.kind = "preload"

C22_PreloadStages == SelectSeq(trace, C22_IsPreloadStage)

\* C22: once the preloads of a simulation are resolved, every configured entry
\* that is not blank is, trimmed, in exactly one of the resolved chunks and the
\* missing list, each list in configured order; a resolved chunk is the file
\* of the first readable candidate (the entry itself when absolute, else the
\* document's folder, then the workspace folders in order) and carries its
\* path as chunk name; the run that follows is given the resolved chunks and
\* the document's chunk whatever is missing, executes the resolved chunks in
\* that order, and hands its result to the editor.
C22_PreloadsPartitionInOrder ==
  (epc = "running" \/ (epc = "ready" /\ lastEvent.started)) =>
    /\ Len(preloads) + Len(missing) = Len(C22_Entries)
    /\ \A i \in 1..Len(C22_Entries) :
         LET entry == C22_Entries[i]
             place == C22_Place(entry)
         IN  IF place # <<>>
             THEN /\ C22_Count(i, TRUE) <= Len(preloads)
                  /\ preloads[C22_Count(i, TRUE)] =
                       Chunk(Files[place[1]], place[1])
             ELSE /\ C22_Count(i, FALSE) <= Len(missing)
                  /\ missing[C22_Count(i, FALSE)] = entry
    /\ epc = "running" =>
         /\ options.preloads = preloads
         /\ options.chunk = Chunk(document.code, getChunkName(document))
         /\ Len(C22_PreloadStages) <= Len(preloads)
         /\ \A k \in 1..Len(C22_PreloadStages) :
              /\ C22_PreloadStages[k].index = k
              /\ C22_PreloadStages[k].chunkName = preloads[k].chunkName
         /\ (pc = "returned" /\ result[1].success) =>
              /\ Len(C22_PreloadStages) = Len(preloads)
              /\ trace[Len(trace) - 1] =
                   Stage("target", 0, getChunkName(document))
    /\ epc = "ready" => simResult # <<>>

\* a document outside the workspace folders with the entries " p ", "n", "x":
\* p is taken from the document's folder though /w/p exists, x from the second
\* workspace folder, n is missing, and the simulation has delivered a result
C22_Witness ==
  /\ epc = "ready"
  /\ lastEvent.started
  /\ document.fsPath = <<"/", "s", "/", "t">>
  /\ settings.preloadScripts = <<<<" ", "p", " ">>, <<"n">>, <<"x">>>>
  /\ preloads = <<Chunk("print2", <<"/", "s", "/", "p">>),
                  Chunk("readset", <<"/", "v", "/", "x">>)>>
  /\ missing = <<<<"n">>>>
  /\ simResult # <<>>
  /\ simResult[1].success

=============================================================================
